---- MODULE Spec2Model ----
(***************************************************************************)
(* Plant monitoring backend: the reading store (facilities, assets,        *)
(* sensor readings), the historical seed (init_db.seed_data), the live     *)
(* generator loop (main._generate_live_readings), the application          *)
(* lifespan, and the read-only request handlers of main.py.                *)
(*                                                                         *)
(* Time is counted in units of 30 seconds (the generator's sleep).         *)
(* Values are counted in hundredths (round(..., 2) keeps two decimals).    *)
(* A reading's id is its position in the sequence `readings` (the          *)
(* autoincrement primary key of an insert-only table).                     *)
(***************************************************************************)
EXTENDS Integers, Sequences, FiniteSets, TLC

\* ------------------------------------------------------------------ bounds
\* Live ticks the generator may start in one behaviour.
MaxTicks == 2
\* Application starts (lifespan entries) in one behaviour.
MaxStarts == 2
\* Seed steps in the lookback window (288 in the source: 24 h of 5-minute steps).
SeedSteps == 1
\* Rows a database may hold before the program first runs (DbSpec).
MaxInitReadings == 2
\* States of the shared random source.
RngStates == 3
\* Runs of `python init_db.py` in one behaviour.
MaxScripts == 1

\* ------------------------------------------------------- program constants
\* asyncio.sleep(30): one time unit.
SleepInterval == 1
\* timedelta(minutes=5), in units of 30 seconds.
SeedStep == 10
\* The period of the drift term, 24 hours, in units of 30 seconds.
DayUnits == 2880

\* limit: int = Query(500, ge=1, le=5000): the default and the validated range.
LimitDefault == 500
LimitMin == 1
LimitMax == 5000

\* now - timedelta(hours=24), scaled to SeedSteps steps.
SeedWindow == SeedSteps * SeedStep

Statuses == {"operational", "warning", "critical", "offline"}

\* init_db.FACILITIES, scaled down to two facilities and three assets.
FACILITIES ==
  << [name |-> "Riverside Power Station",
      assets |-> << [asset_type |-> "Turbine", status |-> "operational"],
                    [asset_type |-> "Pump", status |-> "warning"] >>],
     [name |-> "Northshore Chemical Plant",
      assets |-> << [asset_type |-> "Pump", status |-> "operational"] >>] >>

\* init_db.METRIC_PROFILES, scaled down: (metric_name, unit, base, noise).
METRIC_PROFILES ==
  [Turbine |-> << <<"temperature", "C", 540, 15>>, <<"pressure", "bar", 35, 2>> >>,
   Pump |-> << <<"temperature", "C", 55, 5>> >>]

\* MetricsOf with a default profile for a category the table does not list.
MetricsOfDefault(asset_type) ==
  IF asset_type \in DOMAIN METRIC_PROFILES THEN METRIC_PROFILES[asset_type]
  ELSE METRIC_PROFILES.Pump

\* METRIC_PROFILES.get(asset_type, [])
MetricsOf(asset_type) ==
  IF asset_type \in DOMAIN METRIC_PROFILES THEN METRIC_PROFILES[asset_type] ELSE << >>

\* --------------------------------------------------------- value generator
\* sin(2*pi*u/DayUnits) as a piecewise-linear wave, numerator over DayUnits \div 4.
SinNum(u) ==
  LET p == u % DayUnits
      q == DayUnits \div 4
  IN  IF p <= q THEN p
      ELSE IF p <= 3 * q THEN 2 * q - p
      ELSE p - 4 * q

\* math.sin(2 * math.pi * t / 24) * noise * 0.4, in hundredths.
Drift(noise, u) == (40 * noise * SinNum(u)) \div (DayUnits \div 4)

\* random.gauss(0, noise * 0.3) drawn from the shared source in state r, in
\* hundredths: one of -sigma, 0, +sigma, ... by the state of the source.
Gauss(r, noise) == (r - 1) * 30 * noise

\* The shared random source after one draw.
NextRng(r) == (r + 1) % RngStates

RECURSIVE RngAfter(_, _)
\* The shared random source after n draws.
RngAfter(r, n) == IF n = 0 THEN r ELSE RngAfter(NextRng(r), n - 1)

\* init_db._generate_value: round(base + drift + jitter, 2), in hundredths.
GenerateValue(base, noise, u, r) == 100 * base + Drift(noise, u) + Gauss(r, noise)

\* now.hour + now.minute / 60: the time of day, seconds dropped.
TimeOfDay(t) == 2 * ((t % DayUnits) \div 2)

\* ------------------------------------------------------------------- state
VARIABLES
  facilities,          \* ids of the committed Facility rows
  assets,              \* committed Asset rows; an asset's id is its index
  readings,            \* committed SensorReading rows; a reading's id is its index
  txn,                 \* rows the generator's session has written and not committed
  batch,               \* the generator's local list `readings` of the current tick
  genPc,               \* position of the task running _generate_live_readings
  generator_running,   \* the module global _generator_running
  appUp,               \* the lifespan is between startup and shutdown
  clock,               \* datetime.utcnow()
  rng,                 \* state of the module `random`
  ticksLeft,           \* ticks the generator may still start
  startsLeft,          \* lifespan entries still to come
  scriptsLeft,         \* runs of `python init_db.py` still to come
  nSeeds,              \* seed_data calls that returned
  resp                 \* the response of the request handled in this state, if any

vars == << facilities, assets, readings, txn, batch, genPc, generator_running,
           appUp, clock, rng, ticksLeft, startsLeft, scriptsLeft, nSeeds, resp >>

db == << facilities, assets, readings >>
gen == << txn, batch, genPc, generator_running, ticksLeft >>
budget == << ticksLeft, startsLeft, scriptsLeft >>

NoResp == [op |-> "none"]

\* --------------------------------------------------------- batch building
\* The (asset, metric, time) slots of one asset, in the order of the loops:
\* times outermost, metrics innermost.
AssetSlots(aid, asset_type, times) ==
  LET M == MetricsOf(asset_type)
      n == Len(times) * Len(M)
  IN  [i \in 1..n |->
         [asset_id |-> aid,
          metric |-> M[((i - 1) % Len(M)) + 1],
          t |-> times[((i - 1) \div Len(M)) + 1]]]

RECURSIVE Slots(_, _, _, _)
\* The slots of the assets as[from..], whose ids are first, first + 1, ...
Slots(as, from, first, times) ==
  IF from > Len(as) THEN << >>
  ELSE AssetSlots(first, as[from].asset_type, times)
         \o Slots(as, from + 1, first + 1, times)

\* The times t = start_time, start_time + 5 min, ... while t <= now.
SeedTimes(now) ==
  LET start_time == now - SeedWindow
  IN  [k \in 1..((SeedWindow \div SeedStep) + 1) |-> start_time + (k - 1) * SeedStep]

\* FACILITIES flattened to Asset rows, facility ids starting after nfac.
RECURSIVE SeedAssetsFrom(_, _)
SeedAssetsFrom(f, nfac) ==
  IF f > Len(FACILITIES) THEN << >>
  ELSE [i \in 1..Len(FACILITIES[f].assets) |->
          [facility_id |-> nfac + f,
           asset_type |-> FACILITIES[f].assets[i].asset_type,
           status |-> FACILITIES[f].assets[i].status]]
       \o SeedAssetsFrom(f + 1, nfac)

\* all_readings of seed_data: one row per asset, step and metric.
SeedReadings(newAssets, firstId, now, r) ==
  LET S == Slots(newAssets, 1, firstId, SeedTimes(now))
  IN  [i \in 1..Len(S) |->
         [asset_id |-> S[i].asset_id,
          metric_name |-> S[i].metric[1],
          value |-> GenerateValue(S[i].metric[3], S[i].metric[4],
                                  S[i].t - (now - SeedWindow), RngAfter(r, i - 1)),
          unit |-> S[i].metric[2],
          timestamp |-> S[i].t,
          batch |-> 0]]

\* SeedSkips without the test: the seed runs whatever is stored.
SeedNeverSkips == FALSE

\* SeedSkips testing the readings instead of the facilities.
SeedSkipsByReadings == Len(readings) > 0

\* `if db.query(Facility).count() > 0: return`
SeedSkips == Cardinality(facilities) > 0

\* The rows seed_data adds when it does not skip, the random source being in state r.
SeedRows(r) == SeedReadings(SeedAssetsFrom(1, Cardinality(facilities)), Len(assets) + 1, clock, r)

\* init_db.seed_data, the whole call, the random source being in state r: the
\* skip, or one committed transaction that adds the facilities, the assets
\* and the readings.
seed_data(r) ==
  IF SeedSkips
  THEN UNCHANGED << facilities, assets, readings >>
  ELSE LET nfac == Cardinality(facilities)
       IN  /\ facilities' = facilities \cup {nfac + f : f \in 1..Len(FACILITIES)}
           /\ assets' = assets \o SeedAssetsFrom(1, nfac)
           /\ readings' = readings \o SeedRows(r)

\* The list `readings` one tick builds: one row per asset and metric, stamped now.
TickReadings(as, now, r) ==
  LET S == Slots(as, 1, 1, << now >>)
  IN  [i \in 1..Len(S) |->
         [asset_id |-> S[i].asset_id,
          metric_name |-> S[i].metric[1],
          value |-> GenerateValue(S[i].metric[3], S[i].metric[4],
                                  TimeOfDay(now), RngAfter(r, i - 1)),
          unit |-> S[i].metric[2],
          timestamp |-> now,
          batch |-> now]]

\* ------------------------------------------------------------------ actions
Init ==
  /\ facilities = {}
  /\ assets = << >>
  /\ readings = << >>
  /\ txn = << >>
  /\ batch = << >>
  /\ genPc = "none"
  /\ generator_running = FALSE
  /\ appUp = FALSE
  /\ clock = 0
  /\ rng = 0
  /\ ticksLeft = MaxTicks
  /\ startsLeft = MaxStarts
  /\ scriptsLeft = MaxScripts
  /\ nSeeds = 0
  /\ resp = NoResp

\* Asset rows of a database populated before the program runs, as the test
\* fixture populates one: a known category, a category METRIC_PROFILES does
\* not list, and an asset of a second facility.
FixtureAssets ==
  << [facility_id |-> 1, asset_type |-> "Turbine", status |-> "operational"],
     [facility_id |-> 1, asset_type |-> "Valve", status |-> "critical"],
     [facility_id |-> 2, asset_type |-> "Pump", status |-> "offline"] >>

\* Timestamps of the rows such a database holds.
FixtureTimes == {0, 1}

\* Value of the i-th row such a database holds, in hundredths.
FixtureValue(i) == 5500 * i

RECURSIVE Pick(_, _, _)
\* The elements of q whose index is in K, in order.
Pick(q, K, from) ==
  IF from > Len(q) THEN << >>
  ELSE (IF from \in K THEN << q[from] >> ELSE << >>) \o Pick(q, K, from + 1)

\* A database that exists before the program runs: empty, or two facilities,
\* some of the fixture's assets and up to MaxInitReadings temperature rows of
\* those assets, inserted in any order and with any of the fixture's timestamps.
\* From it one run of the script, one start and one tick are followed.
InitDb ==
  /\ \/ /\ facilities = {}
        /\ assets = << >>
        /\ readings = << >>
     \/ /\ facilities = {1, 2}
        /\ \E K \in SUBSET (DOMAIN FixtureAssets) : assets = Pick(FixtureAssets, K, 1)
        /\ \E n \in 0..MaxInitReadings :
             \E a \in [1..n -> DOMAIN assets] :
               \E t \in [1..n -> FixtureTimes] :
                 readings = [i \in 1..n |->
                               [asset_id |-> a[i],
                                metric_name |-> "temperature",
                                value |-> FixtureValue(i),
                                unit |-> "C",
                                timestamp |-> t[i],
                                batch |-> -1]]
  /\ txn = << >>
  /\ batch = << >>
  /\ genPc = "none"
  /\ generator_running = FALSE
  /\ appUp = FALSE
  /\ clock = 1
  /\ rng = 0
  /\ ticksLeft = 1
  /\ startsLeft = 1
  /\ scriptsLeft = 1
  /\ nSeeds = 0
  /\ resp = NoResp

\* lifespan, up to the yield: create_tables(), seed_data(), and the task
\* created runs to its first await (sets the flag, enters the loop, sleeps).
\* A process starts with the random source in any state.
Startup ==
  /\ ~appUp
  /\ genPc \in {"none", "done"}
  /\ startsLeft > 0
  /\ \E r \in 0..(RngStates - 1) :
       /\ seed_data(r)
       /\ rng' = RngAfter(r, Len(readings') - Len(readings))
  /\ nSeeds' = nSeeds + 1
  /\ startsLeft' = startsLeft - 1
  /\ appUp' = TRUE
  /\ generator_running' = TRUE
  /\ genPc' = "sleep"
  /\ resp' = NoResp
  /\ UNCHANGED << txn, batch, clock, ticksLeft, scriptsLeft >>

\* `python init_db.py`, run while the server is down: create_tables() and
\* seed_data() in a process of its own.
RunInitDb ==
  /\ ~appUp
  /\ genPc \in {"none", "done"}
  /\ scriptsLeft > 0
  /\ \E r \in 0..(RngStates - 1) : seed_data(r)
  /\ nSeeds' = nSeeds + 1
  /\ scriptsLeft' = scriptsLeft - 1
  /\ resp' = NoResp
  /\ UNCHANGED << gen, appUp, clock, rng, startsLeft >>

\* `while _generator_running:` at the end of a tick: sleep again, or leave the loop.
LoopHead == IF generator_running THEN "sleep" ELSE "done"

\* Wake with no time passed since the task went to sleep.
WakeAtOnce ==
  /\ genPc = "sleep"
  /\ ticksLeft > 0
  /\ clock' = clock
  /\ ticksLeft' = ticksLeft - 1
  /\ genPc' = "query"
  /\ resp' = NoResp
  /\ UNCHANGED << db, txn, batch, generator_running, appUp, rng, startsLeft, scriptsLeft, nSeeds >>

\* `await asyncio.sleep(30)` returns; `db = SessionLocal()`.
Wake ==
  /\ genPc = "sleep"
  /\ ticksLeft > 0
  /\ clock' = clock + SleepInterval
  /\ ticksLeft' = ticksLeft - 1
  /\ genPc' = "query"
  /\ resp' = NoResp
  /\ UNCHANGED << db, txn, batch, generator_running, appUp, rng, startsLeft, scriptsLeft, nSeeds >>

\* Lines 62-81: the assets are listed, `now` is read and the list is built.
TickBuild ==
  /\ genPc = "query"
  /\ batch' = TickReadings(assets, clock, rng)
  /\ rng' = RngAfter(rng, Len(batch'))
  /\ genPc' = "save"
  /\ resp' = NoResp
  /\ UNCHANGED << db, txn, generator_running, appUp, clock, budget, nSeeds >>

\* db.bulk_save_objects(readings): the rows are written inside the session's
\* transaction.
TickSave ==
  /\ genPc = "save"
  /\ txn' = batch
  /\ genPc' = "commit"
  /\ resp' = NoResp
  /\ UNCHANGED << db, batch, generator_running, appUp, clock, rng, budget, nSeeds >>

\* The rows db.commit() makes visible.
Committed == txn

\* TickCommit keeping one row per pair: the rows of the pairs written are replaced.
TickCommitUpsert ==
  /\ genPc = "commit"
  /\ readings' = SelectSeq(readings,
                   LAMBDA row : \A k \in DOMAIN txn :
                      << row.asset_id, row.metric_name >>
                        # << txn[k].asset_id, txn[k].metric_name >>) \o Committed
  /\ txn' = << >>
  /\ batch' = << >>
  /\ genPc' = LoopHead
  /\ resp' = NoResp
  /\ UNCHANGED << facilities, assets, generator_running, appUp, clock, rng, budget, nSeeds >>

\* db.commit(), then `finally: db.close()` and the loop's test.
TickCommit ==
  /\ genPc = "commit"
  /\ readings' = readings \o Committed
  /\ txn' = << >>
  /\ batch' = << >>
  /\ genPc' = LoopHead
  /\ resp' = NoResp
  /\ UNCHANGED << facilities, assets, generator_running, appUp, clock, rng, budget, nSeeds >>

\* A storage error raised by db.query(Asset).all(), by bulk_save_objects (some
\* rows already written) or by db.commit(): control goes to `except Exception`.
TickFail ==
  /\ \/ /\ genPc = "query"
        /\ UNCHANGED txn
     \/ /\ genPc = "save"
        /\ \E n \in 0..Len(batch) : txn' = SubSeq(batch, 1, n)
     \/ /\ genPc = "commit"
        /\ UNCHANGED txn
  /\ genPc' = "except"
  /\ resp' = NoResp
  /\ UNCHANGED << db, batch, generator_running, appUp, clock, rng, budget, nSeeds >>

\* AfterExcept when the exception ends the loop.
AfterExceptLeaves == "done"

\* The position after the handler of a failed tick.
AfterExcept == LoopHead

\* TickRollback committing the rows written before the error.
TickRollbackCommits ==
  /\ genPc = "except"
  /\ readings' = readings \o txn
  /\ txn' = << >>
  /\ batch' = << >>
  /\ genPc' = LoopHead
  /\ resp' = NoResp
  /\ UNCHANGED << facilities, assets, generator_running, appUp, clock, rng, budget, nSeeds >>

\* `except Exception`: print, db.rollback(); `finally: db.close()`; the loop's test.
TickRollback ==
  /\ genPc = "except"
  /\ txn' = << >>
  /\ batch' = << >>
  /\ genPc' = AfterExcept
  /\ resp' = NoResp
  /\ UNCHANGED << db, generator_running, appUp, clock, rng, budget, nSeeds >>

\* CancelTask when the task is not cancelled: only the flag stops it.
CancelTaskLost == genPc

\* Where task.cancel() leaves the task: a task suspended in the sleep ends
\* there (CancelledError is no Exception and is raised outside the try); a
\* task inside a tick runs on to the loop's test.
CancelTask == IF genPc = "sleep" THEN "done" ELSE genPc

\* lifespan, after the yield: the flag is cleared and the task cancelled.  The
\* two statements are placed at any position of the loop; on one event loop
\* they run while the task is suspended in its sleep, which is one of them.
Stop ==
  /\ appUp
  /\ appUp' = FALSE
  /\ generator_running' = FALSE
  /\ genPc' = CancelTask
  /\ resp' = NoResp
  /\ UNCHANGED << db, txn, batch, clock, rng, budget, nSeeds >>

\* ----------------------------------------------------------------- queries
\* The rows a request's session reads: the committed rows of sensor_readings.
Visible == readings

\* Ids of the facility's assets: Asset.facility_id == facility_id.
AssetIdsOf(facility_id) == {a \in DOMAIN assets : assets[a].facility_id = facility_id}

\* LatestSubq with min(timestamp) for max(timestamp).
LatestSubqOldest(asset_ids) ==
  LET rows == {i \in DOMAIN Visible : Visible[i].asset_id \in asset_ids}
      groups == {<< Visible[i].asset_id, Visible[i].metric_name >> : i \in rows}
  IN  {[asset_id |-> g[1],
        metric_name |-> g[2],
        max_ts |-> CHOOSE t \in {Visible[i].timestamp : i \in rows} :
                     /\ \E i \in rows : /\ Visible[i].asset_id = g[1]
                                        /\ Visible[i].metric_name = g[2]
                                        /\ Visible[i].timestamp = t
                     /\ \A i \in rows : (Visible[i].asset_id = g[1]
                                         /\ Visible[i].metric_name = g[2])
                                        => Visible[i].timestamp >= t]
       : g \in groups}

\* latest_subq: per (asset_id, metric_name) among the assets, max(timestamp).
LatestSubq(asset_ids) ==
  LET rows == {i \in DOMAIN Visible : Visible[i].asset_id \in asset_ids}
      groups == {<< Visible[i].asset_id, Visible[i].metric_name >> : i \in rows}
  IN  {[asset_id |-> g[1],
        metric_name |-> g[2],
        max_ts |-> CHOOSE t \in {Visible[i].timestamp : i \in rows} :
                     /\ \E i \in rows : /\ Visible[i].asset_id = g[1]
                                        /\ Visible[i].metric_name = g[2]
                                        /\ Visible[i].timestamp = t
                     /\ \A i \in rows : (Visible[i].asset_id = g[1]
                                         /\ Visible[i].metric_name = g[2])
                                        => Visible[i].timestamp <= t]
       : g \in groups}

\* The join of sensor_readings with latest_subq on asset, metric and
\* timestamp = max_ts: the ids of the rows it returns.
LatestJoin(asset_ids) ==
  LET latest_subq == LatestSubq(asset_ids)
  IN  {i \in DOMAIN Visible :
         \E g \in latest_subq :
            /\ Visible[i].asset_id = g.asset_id
            /\ Visible[i].metric_name = g.metric_name
            /\ Visible[i].timestamp = g.max_ts}

RECURSIVE SortedIds(_)
\* A set of ids as a list, ascending (the order the rows are returned in).
SortedIds(S) ==
  IF S = {} THEN << >>
  ELSE LET m == CHOOSE x \in S : \A y \in S : x <= y
       IN  << m >> \o SortedIds(S \ {m})

\* latest_readings of get_dashboard: .all() of the join.
LatestReadings(asset_ids) == SortedIds(LatestJoin(asset_ids))

\* latest_readings of get_asset: the subquery groups by metric_name over the
\* asset's rows, and the join is filtered by the asset.
AssetLatestReadings(asset_id) ==
  SortedIds({i \in DOMAIN Visible :
               /\ Visible[i].asset_id = asset_id
               /\ \A j \in DOMAIN Visible :
                    (Visible[j].asset_id = asset_id
                     /\ Visible[j].metric_name = Visible[i].metric_name)
                    => Visible[j].timestamp <= Visible[i].timestamp})

\* Metric names in ascending order, the order sorted() gives the buckets.
MetricNames == << "pressure", "temperature" >>

RECURSIVE SumSeq(_)
SumSeq(q) == IF q = << >> THEN 0 ELSE Head(q) + SumSeq(Tail(q))

SeqMin(q) == CHOOSE x \in {q[i] : i \in DOMAIN q} : \A i \in DOMAIN q : x <= q[i]
SeqMax(q) == CHOOSE x \in {q[i] : i \in DOMAIN q} : \A i \in DOMAIN q : x >= q[i]

\* round(total / n, 2) on hundredths: the nearest integer, halves to even.
RoundDiv(total, n) ==
  LET fl == total \div n
      rem == total % n
  IN  IF 2 * rem < n THEN fl
      ELSE IF 2 * rem > n THEN fl + 1
      ELSE IF fl % 2 = 0 THEN fl ELSE fl + 1

\* One MetricSummary: the bucket of metric_name among the latest readings.
MetricSummaryOf(metric_name, latest) ==
  LET bucket == SelectSeq(latest, LAMBDA i : Visible[i].metric_name = metric_name)
      values == [k \in DOMAIN bucket |-> Visible[bucket[k]].value]
  IN  [metric_name |-> metric_name,
       unit |-> Visible[bucket[1]].unit,
       total_value |-> SumSeq(values),
       avg_value |-> RoundDiv(SumSeq(values), Len(values)),
       min_value |-> SeqMin(values),
       max_value |-> SeqMax(values),
       asset_count |-> Len(values)]

\* metric_summaries: one summary per metric name present, in sorted order.
MetricSummaries(latest) ==
  LET present == SelectSeq(MetricNames,
                   LAMBDA m : \E k \in DOMAIN latest : Visible[latest[k]].metric_name = m)
  IN  [k \in DOMAIN present |-> MetricSummaryOf(present[k], latest)]

\* AssetStatuses over the assets that have a latest reading, as an inner join
\* of assets and latest readings would list them.
AssetStatusesWithReadings(asset_ids, latest) ==
  LET ids == SortedIds({a \in asset_ids : \E k \in DOMAIN latest : Visible[latest[k]].asset_id = a})
  IN  [k \in DOMAIN ids |->
         [asset_id |-> ids[k],
          asset_type |-> assets[ids[k]].asset_type,
          status |-> assets[ids[k]].status,
          latest_readings |-> SelectSeq(latest, LAMBDA i : Visible[i].asset_id = ids[k])]]

\* asset_statuses: one entry per asset of the facility, with its latest readings.
AssetStatuses(asset_ids, latest) ==
  LET ids == SortedIds(asset_ids)
  IN  [k \in DOMAIN ids |->
         [asset_id |-> ids[k],
          asset_type |-> assets[ids[k]].asset_type,
          status |-> assets[ids[k]].status,
          latest_readings |-> SelectSeq(latest, LAMBDA i : Visible[i].asset_id = ids[k])]]

\* StatusCount over the assets of every facility.
StatusCountAnyFacility(asset_ids, s) ==
  Cardinality({a \in DOMAIN assets : assets[a].status = s})

\* status_counts[s] after the loop over the facility's assets.
StatusCount(asset_ids, s) == Cardinality({a \in asset_ids : assets[a].status = s})

\* FacilityFound through a join with the assets: a facility with none is not found.
FacilityFoundWithAssets(facility_id) ==
  facility_id \in facilities /\ AssetIdsOf(facility_id) # {}

\* The facility lookup of get_dashboard: `if not facility: raise 404`.
FacilityFound(facility_id) == facility_id \in facilities

\* get_dashboard(facility_id): the response.
DashboardResponse(facility_id) ==
  IF ~FacilityFound(facility_id)
  THEN [op |-> "get_dashboard", arg |-> facility_id, code |-> 404,
        body |-> [detail |-> "Facility not found"]]
  ELSE LET asset_ids == AssetIdsOf(facility_id)
           latest == IF asset_ids = {} THEN << >> ELSE LatestReadings(asset_ids)
       IN  [op |-> "get_dashboard", arg |-> facility_id, code |-> 200,
            body |->
              [facility |-> facility_id,
               latest |-> latest,
               metric_summaries |-> IF asset_ids = {} THEN << >> ELSE MetricSummaries(latest),
               asset_statuses |-> IF asset_ids = {} THEN << >>
                                  ELSE AssetStatuses(asset_ids, latest),
               total_assets |-> Cardinality(asset_ids),
               assets_operational |-> StatusCount(asset_ids, "operational"),
               assets_warning |-> StatusCount(asset_ids, "warning"),
               assets_critical |-> StatusCount(asset_ids, "critical"),
               assets_offline |-> StatusCount(asset_ids, "offline"),
               last_updated |-> clock]]

\* get_asset(asset_id): the response.
AssetResponse(asset_id) ==
  IF asset_id \notin DOMAIN assets
  THEN [op |-> "get_asset", arg |-> asset_id, code |-> 404,
        body |-> [detail |-> "Asset not found"]]
  ELSE [op |-> "get_asset", arg |-> asset_id, code |-> 200,
        body |-> [id |-> asset_id,
                  asset_type |-> assets[asset_id].asset_type,
                  status |-> assets[asset_id].status,
                  facility_id |-> assets[asset_id].facility_id,
                  latest_readings |-> AssetLatestReadings(asset_id)]]

\* An Optional query parameter: None when the request omits it.
None == << >>
Some(v) == << v >>

\* The parameters get_readings requests are made with: a facility, an asset
\* and a metric that have rows, the instants around which rows are stored
\* (one filter alone, a range, and a range whose end is before its start), and
\* limits on both sides of each end of the validated range.
FacilityFilters == {None} \cup {Some(f) : f \in 1..Len(FACILITIES)}
AssetFilters == {None, Some(1)}
MetricFilters == {None, Some("temperature")}
TimeRanges ==
  {<< None, None >>, << Some(1), None >>, << None, Some(0) >>,
   << Some(0), Some(1) >>, << Some(1), Some(0) >>}
Limits == {None, Some(LimitMin - 1), Some(LimitMin), Some(LimitMax), Some(LimitMax + 1)}

\* Query(..., ge=1, le=5000): the validation of limit that precedes the handler.
LimitTooSmall(limit) == limit < LimitMin
LimitTooLarge(limit) == limit > LimitMax

\* LimitValid with no validation: any integer reaches the handler.
LimitUnchecked(limit) == TRUE

LimitValid(limit) == ~LimitTooSmall(limit) /\ ~LimitTooLarge(limit)

\* The requests: every combination of the filters with a limit of two rows,
\* which the matching rows exceed in some states and not in others, and every
\* limit without a filter.
ReadingsRequests ==
  {[facility_id |-> f, asset_id |-> a, metric_name |-> m,
    start_time |-> w[1], end_time |-> w[2], limit |-> Some(2)] :
     f \in FacilityFilters, a \in AssetFilters, m \in MetricFilters, w \in TimeRanges}
  \cup
  {[facility_id |-> None, asset_id |-> None, metric_name |-> None,
    start_time |-> None, end_time |-> None, limit |-> l] : l \in Limits}

\* ReadingsQuery with the filters joined by OR.
ReadingsQueryAnyFilter(req) ==
  {i \in DOMAIN Visible :
     \/ /\ req.facility_id = None
        /\ req.asset_id = None
        /\ req.metric_name = None
        /\ req.start_time = None
        /\ req.end_time = None
     \/ /\ req.facility_id # None
        /\ Visible[i].asset_id \in AssetIdsOf(req.facility_id[1])
     \/ /\ req.asset_id # None
        /\ Visible[i].asset_id = req.asset_id[1]
     \/ /\ req.metric_name # None
        /\ Visible[i].metric_name = req.metric_name[1]
     \/ /\ req.start_time # None
        /\ Visible[i].timestamp >= req.start_time[1]
     \/ /\ req.end_time # None
        /\ Visible[i].timestamp <= req.end_time[1]}

\* The query of get_readings before ordering: each filter that is not None
\* adds a WHERE condition; the ids of the rows that satisfy all of them.
ReadingsQuery(req) ==
  {i \in DOMAIN Visible :
     /\ req.facility_id # None =>
          Visible[i].asset_id \in AssetIdsOf(req.facility_id[1])
     /\ req.asset_id # None => Visible[i].asset_id = req.asset_id[1]
     /\ req.metric_name # None => Visible[i].metric_name = req.metric_name[1]
     /\ req.start_time # None => Visible[i].timestamp >= req.start_time[1]
     /\ req.end_time # None => Visible[i].timestamp <= req.end_time[1]}

\* ORDER BY names the timestamp only: among rows of one timestamp the order is
\* the storage engine's, by ascending or by descending row id depending on
\* the plan it chooses.
TieOrders == {"id_asc", "id_desc"}

\* OrderByTimestampDesc in insertion order, without the ORDER BY.
OrderById(S, tie) == SortedIds(S)

RECURSIVE OrderByTimestampDesc(_, _)
\* order_by(SensorReading.timestamp.desc()) of the rows S.
OrderByTimestampDesc(S, tie) ==
  IF S = {} THEN << >>
  ELSE LET newest == {i \in S : \A j \in S : Visible[j].timestamp <= Visible[i].timestamp}
           m == IF tie = "id_asc"
                THEN CHOOSE x \in newest : \A y \in newest : x <= y
                ELSE CHOOSE x \in newest : \A y \in newest : x >= y
       IN  << m >> \o OrderByTimestampDesc(S \ {m}, tie)

\* .limit(limit): the first limit rows.
Limit(q, limit) == IF Len(q) <= limit THEN q ELSE SubSeq(q, 1, limit)

\* get_readings(...): the response.
ReadingsResponse(req, tie) ==
  IF req.limit # None /\ ~LimitValid(req.limit[1])
  THEN [op |-> "get_readings", arg |-> req, code |-> 422,
        body |-> [detail |-> "limit"]]
  ELSE LET limit == IF req.limit = None THEN LimitDefault ELSE req.limit[1]
       IN  [op |-> "get_readings", arg |-> req, code |-> 200,
            body |-> Limit(OrderByTimestampDesc(ReadingsQuery(req), tie), limit)]

\* get_facility(facility_id): the response, the facility with its assets.
FacilityResponse(facility_id) ==
  IF ~FacilityFound(facility_id)
  THEN [op |-> "get_facility", arg |-> facility_id, code |-> 404,
        body |-> [detail |-> "Facility not found"]]
  ELSE [op |-> "get_facility", arg |-> facility_id, code |-> 200,
        body |-> [id |-> facility_id, assets |-> SortedIds(AssetIdsOf(facility_id))]]

\* get_facility_metrics(facility_id): the distinct (metric_name, unit) of the
\* rows of the facility's assets; no facility lookup, [] without assets.
FacilityMetricsResponse(facility_id) ==
  LET asset_ids == AssetIdsOf(facility_id)
  IN  [op |-> "get_facility_metrics", arg |-> facility_id, code |-> 200,
       body |-> IF asset_ids = {} THEN {}
                ELSE {<< Visible[i].metric_name, Visible[i].unit >> :
                        i \in {j \in DOMAIN Visible : Visible[j].asset_id \in asset_ids}}]

\* Facility and asset ids a request may name: those stored, and one more.
FacilityArgs == 1..(Len(FACILITIES) + 1)
AssetArgs == 1..(Len(assets) + 1)

\* GET /api/facilities/{facility_id}/dashboard
get_dashboard ==
  /\ appUp
  /\ resp = NoResp
  /\ \E facility_id \in FacilityArgs : resp' = DashboardResponse(facility_id)
  /\ UNCHANGED << db, gen, appUp, clock, rng, startsLeft, scriptsLeft, nSeeds >>

\* GET /api/assets/{asset_id}
get_asset ==
  /\ appUp
  /\ resp = NoResp
  /\ \E asset_id \in AssetArgs : resp' = AssetResponse(asset_id)
  /\ UNCHANGED << db, gen, appUp, clock, rng, startsLeft, scriptsLeft, nSeeds >>

\* GET /api/readings
get_readings ==
  /\ appUp
  /\ resp = NoResp
  /\ \E req \in ReadingsRequests : \E tie \in TieOrders :
        resp' = ReadingsResponse(req, tie)
  /\ UNCHANGED << db, gen, appUp, clock, rng, startsLeft, scriptsLeft, nSeeds >>

\* get_facility as a get-or-create: a facility that is not stored is stored.
get_facility_or_create ==
  /\ appUp
  /\ resp = NoResp
  /\ \E facility_id \in FacilityArgs :
        /\ facilities' = facilities \cup {facility_id}
        /\ resp' = [op |-> "get_facility", arg |-> facility_id, code |-> 200,
                    body |-> [id |-> facility_id,
                              assets |-> SortedIds(AssetIdsOf(facility_id))]]
  /\ UNCHANGED << assets, readings, gen, appUp, clock, rng, startsLeft, scriptsLeft, nSeeds >>

\* GET /api/facilities/{facility_id}
get_facility ==
  /\ appUp
  /\ resp = NoResp
  /\ \E facility_id \in FacilityArgs : resp' = FacilityResponse(facility_id)
  /\ UNCHANGED << db, gen, appUp, clock, rng, startsLeft, scriptsLeft, nSeeds >>

\* GET /api/facilities
list_facilities ==
  /\ appUp
  /\ resp = NoResp
  /\ resp' = [op |-> "list_facilities", arg |-> None, code |-> 200,
              body |-> SortedIds(facilities)]
  /\ UNCHANGED << db, gen, appUp, clock, rng, startsLeft, scriptsLeft, nSeeds >>

\* GET /api/facilities/{facility_id}/metrics
get_facility_metrics ==
  /\ appUp
  /\ resp = NoResp
  /\ \E facility_id \in FacilityArgs : resp' = FacilityMetricsResponse(facility_id)
  /\ UNCHANGED << db, gen, appUp, clock, rng, startsLeft, scriptsLeft, nSeeds >>

Next ==
  \/ Startup
  \/ RunInitDb
  \/ Wake
  \/ TickBuild
  \/ TickSave
  \/ TickCommit
  \/ TickFail
  \/ TickRollback
  \/ Stop
  \/ get_dashboard
  \/ get_asset


Spec == Init /\ [][Next]_vars

\* The program run on a database that was populated before it.
DbSpec == InitDb /\ [][Next]_vars

\* The steps of the program with every request handler of the API.
ApiNext ==
  \/ Next
  \/ get_readings
  \/ get_facility
  \/ list_facilities
  \/ get_facility_metrics

\* The program and all its request handlers on a database that was populated
\* before it, or that it finds empty and seeds.
ApiSpec == InitDb /\ [][ApiNext]_vars

\* The generator's own steps are taken when they can be: the event loop resumes
\* the task when its sleep has elapsed, and a tick is synchronous code.
FairSpec ==
  /\ Spec
  /\ WF_vars(Wake)
  /\ WF_vars(TickBuild)
  /\ WF_vars(TickSave)
  /\ WF_vars(TickCommit)
  /\ WF_vars(TickRollback)

\* ------------------------------------------------------------------ claims
\* The (asset id, metric name) pairs the signal model defines for the stored assets.
ProfilePairs ==
  {p \in (DOMAIN assets) \X {MetricNames[k] : k \in DOMAIN MetricNames} :
     /\ assets[p[1]].asset_type \in DOMAIN METRIC_PROFILES
     /\ \E k \in DOMAIN METRIC_PROFILES[assets[p[1]].asset_type] :
          METRIC_PROFILES[assets[p[1]].asset_type][k][1] = p[2]}

PairOf(row) == << row.asset_id, row.metric_name >>

\* The response in hand is a dashboard, or an asset detail, that was found.
DashboardOk == resp.op = "get_dashboard" /\ resp.code = 200
AssetOk == resp.op = "get_asset" /\ resp.code = 200

\* C1: in every state a reader can observe, the rows a live tick generated are
\* visible all together or not at all, the rows of one tick carry one
\* timestamp, and a dashboard holds the rows of a tick for all the pairs of
\* its facility's assets or for none; also after a tick failed part-way.
C1_TickAtomic ==
  /\ \A k \in 1..clock :
       LET S == {i \in DOMAIN Visible : Visible[i].batch = k}
       IN  \/ S = {}
           \/ /\ {PairOf(Visible[i]) : i \in S} = ProfilePairs
              /\ Cardinality(S) = Cardinality(ProfilePairs)
              /\ \A i, j \in S : Visible[i].timestamp = Visible[j].timestamp
  /\ DashboardOk =>
       \A k \in 1..clock :
         LET L == {i \in DOMAIN resp.body.latest :
                     readings[resp.body.latest[i]].batch = k}
         IN  \/ L = {}
             \/ {PairOf(readings[resp.body.latest[i]]) : i \in L}
                  = {p \in ProfilePairs : p[1] \in AssetIdsOf(resp.arg)}

\* A dashboard is read while the rows of a tick that failed part-way are still
\* uncommitted, an earlier tick being committed.
C1_Witness ==
  /\ DashboardOk
  /\ genPc = "except"
  /\ Len(txn) > 0
  /\ Len(txn) < Len(batch)
  /\ \E i \in DOMAIN readings : readings[i].batch >= 1
  /\ Len(resp.body.latest) > 0

\* C2: after a failed tick, unless the stop signal arrives, the loop starts the
\* next tick (as long as the tick budget of the model lasts).
C2_FailedTickContinues ==
  (genPc = "except" /\ generator_running /\ ticksLeft > 0)
     ~> (genPc = "query" \/ ~generator_running)

\* The second tick has started and the first one left nothing: it failed.
C2_Witness ==
  /\ genPc = "query"
  /\ generator_running
  /\ ticksLeft = MaxTicks - 2
  /\ startsLeft = MaxStarts - 1
  /\ \A i \in DOMAIN readings : readings[i].batch < 1

\* C3: a tick starts only while the application is up and the flag is set, so
\* none starts after the stop; and a stop that finds a tick in progress leaves
\* the tick's list and its transaction as they are.
C3_NoTickAfterStop ==
  [][/\ (genPc # "query" /\ genPc' = "query") => (appUp /\ generator_running)
     /\ (appUp /\ ~appUp' /\ genPc \in {"query", "save", "commit", "except"})
          => (genPc' = genPc /\ txn' = txn /\ batch' = batch)
     /\ (appUp /\ ~appUp' /\ genPc = "sleep") => genPc' = "done"]_vars

\* The stop arrived during the sleep after a tick that committed, with ticks to spare.
C3_Witness ==
  /\ ~appUp
  /\ genPc = "done"
  /\ ~generator_running
  /\ ticksLeft > 0
  /\ \E i \in DOMAIN readings : readings[i].batch >= 1

\* C4: every reading a dashboard or an asset detail selects as latest has a
\* timestamp >= that of every stored reading of the same asset and metric.
C4_LatestIsMax ==
  /\ DashboardOk =>
       \A k \in DOMAIN resp.body.latest : \A j \in DOMAIN readings :
          PairOf(readings[j]) = PairOf(readings[resp.body.latest[k]])
            => readings[j].timestamp <= readings[resp.body.latest[k]].timestamp
  /\ AssetOk =>
       \A k \in DOMAIN resp.body.latest_readings : \A j \in DOMAIN readings :
          PairOf(readings[j]) = PairOf(readings[resp.body.latest_readings[k]])
            => readings[j].timestamp <= readings[resp.body.latest_readings[k]].timestamp

\* A dashboard selected a reading of a pair that has an older reading too.
C4_Witness ==
  /\ DashboardOk
  /\ \E k \in DOMAIN resp.body.latest : \E j \in DOMAIN readings :
        /\ PairOf(readings[j]) = PairOf(readings[resp.body.latest[k]])
        /\ readings[j].timestamp < readings[resp.body.latest[k]].timestamp

\* C5: the latest-reading set of a dashboard, and of an asset detail, holds
\* exactly one reading per (asset, metric) pair that has a reading, also when
\* several readings of the pair share the maximum timestamp.
C5_OnePerPair ==
  /\ DashboardOk =>
       \A p \in {PairOf(readings[j]) :
                   j \in {i \in DOMAIN readings : readings[i].asset_id \in AssetIdsOf(resp.arg)}} :
          Cardinality({k \in DOMAIN resp.body.latest :
                         PairOf(readings[resp.body.latest[k]]) = p}) = 1
  /\ AssetOk =>
       \A p \in {PairOf(readings[j]) :
                   j \in {i \in DOMAIN readings : readings[i].asset_id = resp.arg}} :
          Cardinality({k \in DOMAIN resp.body.latest_readings :
                         PairOf(readings[resp.body.latest_readings[k]]) = p}) = 1

\* C6: a tick that commits adds exactly one row for every pair the signal
\* model defines for the stored assets and no other row; an asset of a
\* category the table does not list adds none.
C6_TickOnePerPair ==
  [][(genPc = "commit" /\ genPc' \in {"sleep", "done"}) =>
       LET new == SubSeq(readings', Len(readings) + 1, Len(readings'))
       IN  /\ SubSeq(readings', 1, Len(readings)) = readings
           /\ \A p \in ProfilePairs :
                Cardinality({k \in DOMAIN new : PairOf(new[k]) = p}) = 1
           /\ \A k \in DOMAIN new : PairOf(new[k]) \in ProfilePairs]_vars

\* A tick has committed its rows in a database that holds an asset of a listed
\* category and an asset of a category the table does not list.
C6_Witness ==
  /\ genPc = "sleep"
  /\ \E i \in DOMAIN readings : readings[i].batch >= 1
  /\ \E a \in DOMAIN assets : assets[a].asset_type \notin DOMAIN METRIC_PROFILES
  /\ \E a \in DOMAIN assets : assets[a].asset_type \in DOMAIN METRIC_PROFILES

\* C7: the reading store is append-only: every step keeps every stored row,
\* with its id and all its fields.
C7_AppendOnly ==
  [][/\ Len(readings') >= Len(readings)
     /\ SubSeq(readings', 1, Len(readings)) = readings]_vars

\* The store holds the seed's rows and the rows of two ticks.
C7_Witness ==
  /\ \E i \in DOMAIN readings : readings[i].batch = 0
  /\ \E i, j \in DOMAIN readings :
        /\ readings[i].batch >= 1
        /\ readings[j].batch > readings[i].batch

\* C8: a call of seed_data that follows a call of seed_data that returned
\* leaves the facilities, the assets and the readings as they are.
C8_SeedIdempotent ==
  [][(nSeeds >= 1 /\ nSeeds' = nSeeds + 1) =>
       /\ Len(readings') = Len(readings)
       /\ Len(assets') = Len(assets)
       /\ facilities' = facilities]_vars

\* seed_data has returned twice and the store holds the rows of one seed.
C8_Witness ==
  /\ nSeeds >= 2
  /\ Len(readings) > 0
  /\ \A i \in DOMAIN readings : readings[i].batch = 0

\* C9 as stated: a call of seed_data writes readings exactly when the reading
\* store holds no reading.
C9_SeedByReadings ==
  [][(nSeeds' = nSeeds + 1) =>
       ((Len(readings) = 0) <=> (Len(readings') > Len(readings)))]_vars

\* C9, amended: a call of seed_data writes readings exactly when no facility is
\* stored.
C9_SeedByFacilities ==
  [][(nSeeds' = nSeeds + 1) =>
       ((facilities = {}) <=> (Len(readings') > Len(readings)))]_vars

\* seed_data has returned in a database with facilities and no reading.
C9_Witness ==
  /\ nSeeds >= 1
  /\ facilities # {}
  /\ Len(readings) = 0

\* C10: a dashboard request is answered not-found exactly when the facility is
\* not stored, and otherwise with a summary; the summary of a facility with no
\* assets has zero counts and empty lists, and that of a facility whose assets
\* have no readings has no metric rollup.
C10_DashboardOutcomes ==
  resp.op = "get_dashboard" =>
    /\ resp.code \in {200, 404}
    /\ (resp.code = 404) <=> (resp.arg \notin facilities)
    /\ (resp.code = 200 /\ AssetIdsOf(resp.arg) = {}) =>
         /\ resp.body.total_assets = 0
         /\ resp.body.assets_operational = 0
         /\ resp.body.assets_warning = 0
         /\ resp.body.assets_critical = 0
         /\ resp.body.assets_offline = 0
         /\ resp.body.metric_summaries = << >>
         /\ resp.body.asset_statuses = << >>
    /\ (resp.code = 200
        /\ \A i \in DOMAIN readings : readings[i].asset_id \notin AssetIdsOf(resp.arg)) =>
         resp.body.metric_summaries = << >>

\* A dashboard of a stored facility that has no assets, another facility having some.
C10_Witness ==
  /\ DashboardOk
  /\ AssetIdsOf(resp.arg) = {}
  /\ Len(assets) > 0
  /\ resp.body.total_assets = 0

\* The stored readings of metric m of the assets A that no reading of the same
\* (asset, metric) pair is later than.
LatestRowsOf(A, m) ==
  {i \in DOMAIN readings :
     /\ readings[i].asset_id \in A
     /\ readings[i].metric_name = m
     /\ \A j \in DOMAIN readings :
          PairOf(readings[j]) = PairOf(readings[i])
            => readings[j].timestamp <= readings[i].timestamp}

RECURSIVE SumValues(_)
\* The sum of the values of the readings whose ids are in S.
SumValues(S) ==
  IF S = {} THEN 0
  ELSE LET i == CHOOSE x \in S : TRUE
       IN  readings[i].value + SumValues(S \ {i})

\* The assets of A that no stored reading belongs to.
Unread(A) == {a \in A : \A i \in DOMAIN readings : readings[i].asset_id # a}

\* C11: the dashboard of a facility that has assets lists each of its assets
\* exactly once in asset_statuses and no other asset; an asset without readings
\* is listed with an empty latest_readings, and every metric rollup has the
\* count, sum, minimum and maximum that the readings of the other assets give.
C11_AssetsListedOnce ==
  (DashboardOk /\ AssetIdsOf(resp.arg) # {}) =>
    LET A == AssetIdsOf(resp.arg)
        st == resp.body.asset_statuses
        ms == resp.body.metric_summaries
    IN  /\ \A a \in A : Cardinality({k \in DOMAIN st : st[k].asset_id = a}) = 1
        /\ \A k \in DOMAIN st : st[k].asset_id \in A
        /\ \A a \in Unread(A) :
             /\ \A k \in DOMAIN st : st[k].asset_id = a => st[k].latest_readings = << >>
             /\ \A s \in DOMAIN ms :
                  LET R == LatestRowsOf(A \ {a}, ms[s].metric_name)
                  IN  /\ ms[s].asset_count = Cardinality(R)
                      /\ ms[s].total_value = SumValues(R)
                      /\ \E i \in R : ms[s].min_value = readings[i].value
                      /\ \E i \in R : ms[s].max_value = readings[i].value
                      /\ \A i \in R : /\ ms[s].min_value <= readings[i].value
                                       /\ ms[s].max_value >= readings[i].value

\* A dashboard of a facility one of whose assets has no reading while another
\* asset's readings make a rollup.
C11_Witness ==
  /\ DashboardOk
  /\ Unread(AssetIdsOf(resp.arg)) # {}
  /\ resp.body.metric_summaries # << >>
  /\ \E k \in DOMAIN resp.body.asset_statuses :
        /\ resp.body.asset_statuses[k].asset_id \in Unread(AssetIdsOf(resp.arg))
        /\ resp.body.asset_statuses[k].latest_readings = << >>

\* C12: every metric rollup of a dashboard has total_value within rounding
\* tolerance of avg_value times asset_count (avg_value is rounded to a
\* hundredth, so half a hundredth per counted value), min_value <= avg_value <=
\* max_value, total_value, min_value and max_value the sum, minimum and
\* maximum of the latest readings of the metric across the facility's assets,
\* and asset_count the number of assets those readings belong to.
C12_Rollups ==
  DashboardOk =>
    \A s \in DOMAIN resp.body.metric_summaries :
      LET m == resp.body.metric_summaries[s]
          R == LatestRowsOf(AssetIdsOf(resp.arg), m.metric_name)
          diff == m.total_value - m.avg_value * m.asset_count
      IN  /\ 2 * diff <= m.asset_count
          /\ 2 * diff >= 0 - m.asset_count
          /\ m.min_value <= m.avg_value
          /\ m.avg_value <= m.max_value
          /\ m.total_value = SumValues(R)
          /\ \E i \in R : m.min_value = readings[i].value
          /\ \E i \in R : m.max_value = readings[i].value
          /\ \A i \in R : /\ m.min_value <= readings[i].value
                           /\ m.max_value >= readings[i].value
          /\ m.asset_count = Cardinality({readings[i].asset_id : i \in R})

\* C13: in every dashboard each of the four status counts is the number of the
\* facility's assets that have that status, zero when none has, total_assets
\* is the number of the facility's assets, and the four counts add up to
\* total_assets.
C13_StatusCounts ==
  DashboardOk =>
    LET A == AssetIdsOf(resp.arg)
        Having(s) == Cardinality({a \in A : assets[a].status = s})
    IN  /\ resp.body.assets_operational = Having("operational")
        /\ resp.body.assets_warning = Having("warning")
        /\ resp.body.assets_critical = Having("critical")
        /\ resp.body.assets_offline = Having("offline")
        /\ resp.body.total_assets = Cardinality(A)
        /\ resp.body.assets_operational + resp.body.assets_warning
             + resp.body.assets_critical + resp.body.assets_offline
             = resp.body.total_assets

\* A dashboard of a facility with assets of two statuses, no asset of a third
\* status, while another facility has an asset of a fourth.
C13_Witness ==
  /\ DashboardOk
  /\ resp.body.assets_operational >= 1
  /\ resp.body.assets_critical >= 1
  /\ resp.body.assets_warning = 0
  /\ resp.body.assets_offline = 0
  /\ resp.body.total_assets = 2
  /\ \E a \in DOMAIN assets : assets[a].status = "offline"

\* The response in hand is a list of readings that get_readings returned.
ReadingsOk == resp.op = "get_readings" /\ resp.code = 200

\* C14: whatever the filters and the valid limit, and in every state of the
\* store, also between the steps of a live tick, the list get_readings returns
\* is in non-increasing timestamp order.
C14_NewestFirst ==
  ReadingsOk =>
    \A k \in 1..(Len(resp.body) - 1) :
       readings[resp.body[k]].timestamp >= readings[resp.body[k + 1]].timestamp

\* A list of two readings of different timestamps, the later one stored first
\* or second, returned while a tick has written its rows and not committed.
C14_Witness ==
  /\ ReadingsOk
  /\ Len(resp.body) = 2
  /\ readings[resp.body[1]].timestamp > readings[resp.body[2]].timestamp
  /\ resp.body[1] > resp.body[2]
  /\ genPc = "commit"
  /\ txn # << >>

\* C15: a get_readings request with a limit k from 1 to 5000 is answered with
\* a list of at most k readings, and one without a limit with at most 500; a
\* request with k below 1 or above 5000 is rejected as invalid, not answered
\* with a list (as a clamped limit would be), and no request changes the store.
C15_LimitRange ==
  [][(resp = NoResp /\ resp'.op = "get_readings") =>
       LET k == resp'.arg.limit
       IN  /\ k = None => (resp'.code = 200 /\ Len(resp'.body) <= LimitDefault)
           /\ (k # None /\ k[1] >= LimitMin /\ k[1] <= LimitMax) =>
                 (resp'.code = 200 /\ Len(resp'.body) <= k[1])
           /\ (k # None /\ (k[1] < LimitMin \/ k[1] > LimitMax)) =>
                 (resp'.code = 422 /\ resp'.body = [detail |-> "limit"])
           /\ UNCHANGED db]_vars

\* A request with limit 0 was rejected, and one with limit 1 would leave rows
\* out: the store holds several readings.
C15_Witness ==
  /\ resp.op = "get_readings"
  /\ resp.arg.limit = Some(LimitMin - 1)
  /\ resp.code = 422
  /\ Len(readings) > 1

\* The stored readings that satisfy every filter the request supplies.
Matching(req) ==
  {i \in DOMAIN readings :
     /\ req.facility_id # None =>
          /\ readings[i].asset_id \in DOMAIN assets
          /\ assets[readings[i].asset_id].facility_id = req.facility_id[1]
     /\ req.asset_id # None => readings[i].asset_id = req.asset_id[1]
     /\ req.metric_name # None => readings[i].metric_name = req.metric_name[1]
     /\ req.start_time # None => readings[i].timestamp >= req.start_time[1]
     /\ req.end_time # None => readings[i].timestamp <= req.end_time[1]}

\* C16: the list get_readings returns holds only stored readings that satisfy
\* all the supplied filters at once, none twice, none of an asset of another
\* facility when a facility is given, as many as the smaller of the limit and
\* the number of matching readings, and no matching reading left out is
\* later than a returned one.
C16_FiltersConjoined ==
  ReadingsOk =>
    LET req == resp.arg
        M == Matching(req)
        limit == IF req.limit = None THEN LimitDefault ELSE req.limit[1]
        returned == {resp.body[k] : k \in DOMAIN resp.body}
    IN  /\ returned \subseteq M
        /\ Cardinality(returned) = Len(resp.body)
        /\ req.facility_id # None =>
             \A i \in returned : assets[readings[i].asset_id].facility_id = req.facility_id[1]
        /\ Len(resp.body) = IF limit <= Cardinality(M) THEN limit ELSE Cardinality(M)
        /\ \A i \in M \ returned : \A j \in returned :
             readings[i].timestamp <= readings[j].timestamp

\* A request with a facility, a metric and a start time was answered with
\* fewer readings than match, one of them as late as a reading left out,
\* while a reading of another facility matches the other filters.
C16_Witness ==
  /\ ReadingsOk
  /\ resp.arg.facility_id # None
  /\ resp.arg.metric_name # None
  /\ resp.arg.start_time # None
  /\ Len(resp.body) < Cardinality(Matching(resp.arg))
  /\ \E i \in Matching(resp.arg) : \E k \in DOMAIN resp.body :
        /\ \A n \in DOMAIN resp.body : resp.body[n] # i
        /\ readings[i].timestamp = readings[resp.body[k]].timestamp
  /\ \E i \in Matching([resp.arg EXCEPT !.facility_id = None]) :
        assets[readings[i].asset_id].facility_id # resp.arg.facility_id[1]

\* C17: a get_readings request whose end_time is earlier than its start_time
\* is rejected as invalid input: it is not answered with a list of readings,
\* be it empty or computed from the bounds exchanged.
C17_ReversedRangeRejected ==
  (/\ resp.op = "get_readings"
   /\ resp.arg.start_time # None
   /\ resp.arg.end_time # None
   /\ resp.arg.end_time[1] < resp.arg.start_time[1]) => resp.code # 200

\* C18: every step of a request handler (get_dashboard, get_readings,
\* get_asset, get_facility, list_facilities, get_facility_metrics), whether it
\* answers with a result or with an error, leaves facilities, assets and
\* readings as they were; and once the application is up, a step that adds
\* readings is the commit of a tick of the background task.
C18_HandlersReadOnly ==
  [][/\ (resp' # NoResp) =>
          /\ resp'.op \in {"get_dashboard", "get_readings", "get_asset",
                           "get_facility", "list_facilities", "get_facility_metrics"}
          /\ UNCHANGED << facilities, assets, readings >>
     /\ (appUp /\ readings' # readings) =>
          /\ genPc = "commit"
          /\ txn # << >>
          /\ readings' = readings \o txn
     /\ appUp => UNCHANGED << facilities, assets >>]_vars

\* A request was answered with an error in a store that holds the rows of a
\* committed tick.
C18_Witness ==
  /\ resp # NoResp
  /\ resp.code # 200
  /\ \E i \in DOMAIN readings : readings[i].batch >= 1

\* The ids of the readings the program generated (the seed's and the ticks').
Generated == {i \in DOMAIN readings : readings[i].batch >= 0}

\* C19: after a seed, ticks that commit or fail, and stops and restarts, no
\* two generated readings of one (asset, metric) pair have the same
\* timestamp; the readings a seed writes for a pair are 5 minutes apart and
\* the last one is stamped with the time of the seed; and the readings a tick
\* commits are later than every reading stored for their pair.
C19_DistinctTimestamps ==
  /\ [](\A i, j \in Generated :
          (i # j /\ PairOf(readings[i]) = PairOf(readings[j]))
            => readings[i].timestamp # readings[j].timestamp)
  /\ [][LET new == (Len(readings) + 1)..Len(readings')
            SamePair(i, j) == PairOf(readings'[i]) = PairOf(readings'[j])
        IN  /\ (nSeeds' = nSeeds + 1) =>
                 \A i \in new :
                    /\ readings'[i].timestamp <= clock
                    /\ \E j \in new : SamePair(i, j) /\ readings'[j].timestamp = clock
                    /\ readings'[i].timestamp < clock =>
                         \E j \in new : /\ SamePair(i, j)
                                        /\ readings'[j].timestamp
                                             = readings'[i].timestamp + SeedStep
                    /\ \A j \in new :
                         (j # i /\ SamePair(i, j)) =>
                            \/ readings'[j].timestamp >= readings'[i].timestamp + SeedStep
                            \/ readings'[i].timestamp >= readings'[j].timestamp + SeedStep
            /\ (nSeeds' = nSeeds) =>
                 \A i \in new : \A j \in DOMAIN readings :
                    SamePair(i, j) => readings[j].timestamp < readings'[i].timestamp]_vars

\* The store holds the readings of a seed and of two ticks, the second tick
\* after a stop and a restart, and a pair has a reading of each.
C19_Witness ==
  /\ startsLeft = MaxStarts - 2
  /\ \E i, j, k \in Generated :
        /\ readings[i].batch = 0
        /\ readings[j].batch >= 1
        /\ readings[k].batch > readings[j].batch
        /\ PairOf(readings[i]) = PairOf(readings[j])
        /\ PairOf(readings[j]) = PairOf(readings[k])
        /\ readings[j].timestamp > readings[i].timestamp
        /\ \A n \in Generated : readings[n].batch = 0 =>
              readings[n].timestamp < readings[j].timestamp

====
